---- MODULE Spec2Model ----
(***************************************************************************)
(* SimpleBloomFilter (src/bloomfilter.py) as a state machine: one filter   *)
(* object, its constructor and its public methods, each an atomic call.    *)
(*                                                                         *)
(* Floating point: the sizing formulas are evaluated in fixed point with   *)
(* six decimals (SCALE).  For every configuration of Capacities \X Pcts    *)
(* the truncated fixed-point result equals the value CPython's doubles     *)
(* give.  A probability p is carried as an integer number of hundredths.   *)
(***************************************************************************)
EXTENDS Integers, Sequences, FiniteSets, TLC

\* ---- bounds of the exploration ----
MaxAdds == 3

\* Constructor arguments tried: capacity, and p in hundredths.
Capacities == {0, 1, 2, 10, 100}
Pcts == {0, 1, 10, 30, 50, 90, 100}
\* Items handed to add and contains.
Items == {"Alice", "Bob", "Charlie"}

\* ---- the float library, in fixed point ----
SCALE == 1000000
\* math.log(2) * SCALE
LN2 == 693147
\* math.log(2) ** 2 * SCALE
LN2SQ == 480453

\* -math.log(pct / 100) * SCALE, rounded, for pct > 0
NegLogTable ==
  1 :> 4605170 @@ 10 :> 2302585 @@ 30 :> 1203973 @@ 50 :> 693147 @@
  90 :> 105361 @@ 100 :> 0

\* math.log(p): raises ValueError ("math domain error") for p <= 0.
\* The value returned is -log, scaled.
math_log(pct) ==
  IF pct <= 0 THEN [exc |-> "ValueError", neg |-> 0]
  ELSE [exc |-> "none", neg |-> NegLogTable[pct]]

\* ---- hashlib.md5(...).hexdigest(), tabulated over the inputs used ----
\* Each digest is its 32 hexadecimal digits, most significant first.
md5_hexdigest ==
  \* md5("Alice_0") = eb3aee4e0f9d7f5785c4d3460f2c5a74
  "Alice_0" :> <<14, 11, 3, 10, 14, 14, 4, 14, 0, 15, 9, 13, 7, 15, 5, 7, 8, 5, 12, 4, 13, 3, 4, 6, 0, 15, 2, 12, 5, 10, 7, 4>> @@
  \* md5("Alice_1") = 1efb24dc8726eddab47f09ac84d18572
  "Alice_1" :> <<1, 14, 15, 11, 2, 4, 13, 12, 8, 7, 2, 6, 14, 13, 13, 10, 11, 4, 7, 15, 0, 9, 10, 12, 8, 4, 13, 1, 8, 5, 7, 2>> @@
  \* md5("Alice_2") = 0141c16176753976ef1f39428de11a0d
  "Alice_2" :> <<0, 1, 4, 1, 12, 1, 6, 1, 7, 6, 7, 5, 3, 9, 7, 6, 14, 15, 1, 15, 3, 9, 4, 2, 8, 13, 14, 1, 1, 10, 0, 13>> @@
  \* md5("Alice_3") = 7e4f01ece56767e67c469ddc0e9a81e7
  "Alice_3" :> <<7, 14, 4, 15, 0, 1, 14, 12, 14, 5, 6, 7, 6, 7, 14, 6, 7, 12, 4, 6, 9, 13, 13, 12, 0, 14, 9, 10, 8, 1, 14, 7>> @@
  \* md5("Alice_4") = dee41157a62b7291ed4dd77fd3ef4825
  "Alice_4" :> <<13, 14, 14, 4, 1, 1, 5, 7, 10, 6, 2, 11, 7, 2, 9, 1, 14, 13, 4, 13, 13, 7, 7, 15, 13, 3, 14, 15, 4, 8, 2, 5>> @@
  \* md5("Alice_5") = 95685fea866816171391c92f7f0950ad
  "Alice_5" :> <<9, 5, 6, 8, 5, 15, 14, 10, 8, 6, 6, 8, 1, 6, 1, 7, 1, 3, 9, 1, 12, 9, 2, 15, 7, 15, 0, 9, 5, 0, 10, 13>> @@
  \* md5("Alice_6") = 7bdbb3ce03274a6e069b02ad8fa96b97
  "Alice_6" :> <<7, 11, 13, 11, 11, 3, 12, 14, 0, 3, 2, 7, 4, 10, 6, 14, 0, 6, 9, 11, 0, 2, 10, 13, 8, 15, 10, 9, 6, 11, 9, 7>> @@
  \* md5("Bob_0") = 8a56c87a34b9655242135e42c9ed8645
  "Bob_0" :> <<8, 10, 5, 6, 12, 8, 7, 10, 3, 4, 11, 9, 6, 5, 5, 2, 4, 2, 1, 3, 5, 14, 4, 2, 12, 9, 14, 13, 8, 6, 4, 5>> @@
  \* md5("Bob_1") = 415a8e70131d0dbc9c6956669fa9b25f
  "Bob_1" :> <<4, 1, 5, 10, 8, 14, 7, 0, 1, 3, 1, 13, 0, 13, 11, 12, 9, 12, 6, 9, 5, 6, 6, 6, 9, 15, 10, 9, 11, 2, 5, 15>> @@
  \* md5("Bob_2") = 8ca0390ed7753f2c2fbd12dd413d74c2
  "Bob_2" :> <<8, 12, 10, 0, 3, 9, 0, 14, 13, 7, 7, 5, 3, 15, 2, 12, 2, 15, 11, 13, 1, 2, 13, 13, 4, 1, 3, 13, 7, 4, 12, 2>> @@
  \* md5("Bob_3") = 4dc0ce6a238538765aff03737a0e4a0e
  "Bob_3" :> <<4, 13, 12, 0, 12, 14, 6, 10, 2, 3, 8, 5, 3, 8, 7, 6, 5, 10, 15, 15, 0, 3, 7, 3, 7, 10, 0, 14, 4, 10, 0, 14>> @@
  \* md5("Bob_4") = 3aad5448053f5124a8f5239c3cdaabc9
  "Bob_4" :> <<3, 10, 10, 13, 5, 4, 4, 8, 0, 5, 3, 15, 5, 1, 2, 4, 10, 8, 15, 5, 2, 3, 9, 12, 3, 12, 13, 10, 10, 11, 12, 9>> @@
  \* md5("Bob_5") = b993d662870859bdc532d6a2550d827f
  "Bob_5" :> <<11, 9, 9, 3, 13, 6, 6, 2, 8, 7, 0, 8, 5, 9, 11, 13, 12, 5, 3, 2, 13, 6, 10, 2, 5, 5, 0, 13, 8, 2, 7, 15>> @@
  \* md5("Bob_6") = 0b2154a2bd9bfc5ae85d116e7db7d655
  "Bob_6" :> <<0, 11, 2, 1, 5, 4, 10, 2, 11, 13, 9, 11, 15, 12, 5, 10, 14, 8, 5, 13, 1, 1, 6, 14, 7, 13, 11, 7, 13, 6, 5, 5>> @@
  \* md5("Charlie_0") = 6e9a3de06ede3d55f3da6053913ff0de
  "Charlie_0" :> <<6, 14, 9, 10, 3, 13, 14, 0, 6, 14, 13, 14, 3, 13, 5, 5, 15, 3, 13, 10, 6, 0, 5, 3, 9, 1, 3, 15, 15, 0, 13, 14>> @@
  \* md5("Charlie_1") = 1260c3971b08cc11e932f3bb1d3fbbff
  "Charlie_1" :> <<1, 2, 6, 0, 12, 3, 9, 7, 1, 11, 0, 8, 12, 12, 1, 1, 14, 9, 3, 2, 15, 3, 11, 11, 1, 13, 3, 15, 11, 11, 15, 15>> @@
  \* md5("Charlie_2") = 2c7a75fbc12c29ad4418c6508fc2235b
  "Charlie_2" :> <<2, 12, 7, 10, 7, 5, 15, 11, 12, 1, 2, 12, 2, 9, 10, 13, 4, 4, 1, 8, 12, 6, 5, 0, 8, 15, 12, 2, 2, 3, 5, 11>> @@
  \* md5("Charlie_3") = ab96b9e550706bda7f572b080ab10b63
  "Charlie_3" :> <<10, 11, 9, 6, 11, 9, 14, 5, 5, 0, 7, 0, 6, 11, 13, 10, 7, 15, 5, 7, 2, 11, 0, 8, 0, 10, 11, 1, 0, 11, 6, 3>> @@
  \* md5("Charlie_4") = b9d71413a20fdd193f56b6df5c2621da
  "Charlie_4" :> <<11, 9, 13, 7, 1, 4, 1, 3, 10, 2, 0, 15, 13, 13, 1, 9, 3, 15, 5, 6, 11, 6, 13, 15, 5, 12, 2, 6, 2, 1, 13, 10>> @@
  \* md5("Charlie_5") = beda03aee0e338519c381d16fa449ec6
  "Charlie_5" :> <<11, 14, 13, 10, 0, 3, 10, 14, 14, 0, 14, 3, 3, 8, 5, 1, 9, 12, 3, 8, 1, 13, 1, 6, 15, 10, 4, 4, 9, 14, 12, 6>> @@
  \* md5("Charlie_6") = 5a6f7e1e613c8656df09f1cfe0b922f8
  "Charlie_6" :> <<5, 10, 6, 15, 7, 14, 1, 14, 6, 1, 3, 12, 8, 6, 5, 6, 13, 15, 0, 9, 15, 1, 12, 15, 14, 0, 11, 9, 2, 2, 15, 8>>

\* str(seed) of the f-string, for a one-digit seed
str(seed) ==
  CASE seed = 0 -> "0" [] seed = 1 -> "1" [] seed = 2 -> "2" [] seed = 3 -> "3"
    [] seed = 4 -> "4" [] seed = 5 -> "5" [] seed = 6 -> "6" [] seed = 7 -> "7"
    [] seed = 8 -> "8" [] seed = 9 -> "9"

\* int(hex, 16) % mm, by Horner's rule over the digits; mm > 0
RECURSIVE IntHexMod(_, _, _)
IntHexMod(digits, len, mm) ==
  IF len = 0 THEN 0
  ELSE (IntHexMod(digits, len - 1, mm) * 16 + digits[len]) % mm

VARIABLES
  created,       \* a SimpleBloomFilter object exists
  n,             \* self.n
  p,             \* self.p, in hundredths
  m,             \* self.m
  k,             \* self.k
  bit_array,     \* self.bit_array, indexed from 0
  num_elements,  \* self.num_elements
  last,          \* the last call: its name, arguments, return value, exception
  added,         \* history: the items for which add has returned
  addCalls       \* history: the number of add calls that returned

vars == <<created, n, p, m, k, bit_array, num_elements, last, added, addCalls>>
fields == <<n, p, m, k, bit_array, num_elements>>

Call(op, item, capacity, pct, ret, exc) ==
  [op |-> op, item |-> item, capacity |-> capacity, pct |-> pct,
   ret |-> ret, exc |-> exc]

\* ---- __init__ ----

\* int(-self.n * math.log(self.p) / (math.log(2) ** 2)): int() truncates
_calculate_optimal_m(nn, pp) ==
  LET lg == math_log(pp) IN
  IF lg.exc # "none" THEN [exc |-> lg.exc, val |-> 0]
  ELSE [exc |-> "none", val |-> (nn * lg.neg) \div LN2SQ]

\* int((self.m / self.n) * math.log(2)): the division raises for n = 0
_calculate_optimal_k(mm, nn) ==
  IF nn = 0 THEN [exc |-> "ZeroDivisionError", val |-> 0]
  ELSE [exc |-> "none", val |-> (mm * LN2) \div (nn * SCALE)]

\* SimpleBloomFilter(capacity, false_positive_probability).  An exception
\* leaves the caller without an object.
Construct(capacity, pct) ==
  /\ ~created
  /\ LET rm == _calculate_optimal_m(capacity, pct)
         rk == _calculate_optimal_k(rm.val, capacity)
         exc == IF rm.exc # "none" THEN rm.exc ELSE rk.exc
     IN /\ last' = Call("__init__", "", capacity, pct, "None", exc)
        /\ IF exc = "none"
           THEN /\ created' = TRUE
                /\ n' = capacity
                /\ p' = pct
                /\ m' = rm.val
                /\ k' = rk.val
                /\ bit_array' = [i \in 0 .. (rm.val - 1) |-> FALSE]
                /\ num_elements' = 0
           ELSE UNCHANGED <<created, n, p, m, k, bit_array, num_elements>>
  /\ UNCHANGED <<added, addCalls>>

\* ---- _hash ----

\* hash_value % self.m of md5(f"{item_str}_{seed}"); raises for m = 0
_hash(item, seed, mm) ==
  IF mm = 0 THEN [exc |-> "ZeroDivisionError", val |-> 0]
  ELSE [exc |-> "none",
        val |-> IntHexMod(md5_hexdigest[item \o "_" \o str(seed)], 32, mm)]

\* ---- add ----

\* Variant of SetBit: the bit is flipped instead of set.
SetBitToggle(bits, index) == [bits EXCEPT ![index] = ~@]

\* Variant of SetBit: the index is taken one too far (wrapping).
SetBitOffByOne(bits, index) ==
  [bits EXCEPT ![(index + 1) % Cardinality(DOMAIN bits)] = TRUE]

\* self.bit_array[index] = True
SetBit(bits, index) == [bits EXCEPT ![index] = TRUE]

\* for i in range(self.k): index = self._hash(item, i); set the bit.
\* Rounds i .. kk-1; an exception of _hash ends the loop where it stands.
RECURSIVE add_loop(_, _, _, _, _)
add_loop(bits, item, i, kk, mm) ==
  IF i >= kk THEN [exc |-> "none", bits |-> bits]
  ELSE LET h == _hash(item, i, mm) IN
       IF h.exc # "none" THEN [exc |-> h.exc, bits |-> bits]
       ELSE add_loop(SetBit(bits, h.val), item, i + 1, kk, mm)

\* Variant of Add: the counter counts only the calls that set a new bit.
AddCountsNewOnly(item) ==
  /\ created
  /\ addCalls < MaxAdds
  /\ LET r == add_loop(bit_array, item, 0, k, m) IN
     /\ bit_array' = r.bits
     /\ last' = Call("add", item, 0, 0, "None", r.exc)
     /\ num_elements' = IF r.bits # bit_array THEN num_elements + 1
                        ELSE num_elements
     /\ added' = added \union {item}
     /\ addCalls' = addCalls + 1
  /\ UNCHANGED <<created, n, p, m, k>>

\* filter.add(item)
Add(item) ==
  /\ created
  /\ addCalls < MaxAdds
  /\ LET r == add_loop(bit_array, item, 0, k, m) IN
     /\ bit_array' = r.bits
     /\ last' = Call("add", item, 0, 0, "None", r.exc)
     /\ IF r.exc = "none"
        THEN /\ num_elements' = num_elements + 1
             /\ added' = added \union {item}
             /\ addCalls' = addCalls + 1
        ELSE UNCHANGED <<num_elements, added, addCalls>>
  /\ UNCHANGED <<created, n, p, m, k>>

\* ---- contains ----

\* for i in range(self.k): return False at the first unset bit; else True
RECURSIVE contains_loop(_, _, _, _, _)
contains_loop(bits, item, i, kk, mm) ==
  IF i >= kk THEN [exc |-> "none", ret |-> TRUE]
  ELSE LET h == _hash(item, i, mm) IN
       IF h.exc # "none" THEN [exc |-> h.exc, ret |-> FALSE]
       ELSE IF ~bits[h.val] THEN [exc |-> "none", ret |-> FALSE]
       ELSE contains_loop(bits, item, i + 1, kk, mm)

\* Variant of contains: the rounds are numbered from 1, not from 0.
containsFromOne(item) == contains_loop(bit_array, item, 1, k + 1, m)

contains(item) == contains_loop(bit_array, item, 0, k, m)

\* Variant of Contains: a lookup is counted as an element.
ContainsCounting(item) ==
  /\ created
  /\ LET r == contains(item) IN
     last' = Call("contains", item, 0, 0, r.ret, r.exc)
  /\ num_elements' = num_elements + 1
  /\ UNCHANGED <<created, n, p, m, k, bit_array, added, addCalls>>

\* filter.contains(item), and item in filter
Contains(item) ==
  /\ created
  /\ LET r == contains(item) IN
     last' = Call("contains", item, 0, 0, r.ret, r.exc)
  /\ UNCHANGED <<created, n, p, m, k, bit_array, num_elements, added, addCalls>>

\* ---- statistics ----

\* sum(self.bit_array)
SetBits(bits) == Cardinality({i \in DOMAIN bits : bits[i]})

\* (1 - e^(-k * num_elements / m)) ** k, or 0.0 on an empty filter.  The
\* float is carried as the arguments of the formula.
get_current_false_positive_probability ==
  IF num_elements = 0
  THEN [exc |-> "none", ret |-> [zero |-> TRUE, k |-> 0, x |-> 0, m |-> 1]]
  ELSE IF m = 0
  THEN [exc |-> "ZeroDivisionError", ret |-> "None"]
  ELSE [exc |-> "none",
        ret |-> [zero |-> FALSE, k |-> k, x |-> k * num_elements, m |-> m]]

\* sum(self.bit_array) / self.m, carried as numerator and denominator
get_fill_ratio ==
  IF m = 0 THEN [exc |-> "ZeroDivisionError", ret |-> "None"]
  ELSE [exc |-> "none", ret |-> [num |-> SetBits(bit_array), den |-> m]]

\* print_stats: both statistics first, then the report (load factor
\* num_elements / n only when num_elements > 0)
print_stats ==
  LET fp == get_current_false_positive_probability
      fr == get_fill_ratio
  IN IF fp.exc # "none" THEN [exc |-> fp.exc, ret |-> "None"]
     ELSE IF fr.exc # "none" THEN [exc |-> fr.exc, ret |-> "None"]
     ELSE IF num_elements > 0 /\ n = 0
     THEN [exc |-> "ZeroDivisionError", ret |-> "None"]
     ELSE [exc |-> "none", ret |-> "None"]

GetCurrentFalsePositiveProbability ==
  /\ created
  /\ LET r == get_current_false_positive_probability IN
     last' = Call("get_current_false_positive_probability", "", 0, 0, r.ret, r.exc)
  /\ UNCHANGED <<created, n, p, m, k, bit_array, num_elements, added, addCalls>>

GetFillRatio ==
  /\ created
  /\ LET r == get_fill_ratio IN
     last' = Call("get_fill_ratio", "", 0, 0, r.ret, r.exc)
  /\ UNCHANGED <<created, n, p, m, k, bit_array, num_elements, added, addCalls>>

PrintStats ==
  /\ created
  /\ LET r == print_stats IN
     last' = Call("print_stats", "", 0, 0, r.ret, r.exc)
  /\ UNCHANGED <<created, n, p, m, k, bit_array, num_elements, added, addCalls>>

Init ==
  /\ created = FALSE
  /\ n = 0 /\ p = 0 /\ m = 0 /\ k = 0
  /\ bit_array = <<>>
  /\ num_elements = 0
  /\ last = Call("none", "", 0, 0, "None", "none")
  /\ added = {}
  /\ addCalls = 0

Next ==
  \/ \E capacity \in Capacities, pct \in Pcts : Construct(capacity, pct)
  \/ \E item \in Items : Add(item)
  \/ \E item \in Items : Contains(item)
  \/ GetCurrentFalsePositiveProbability
  \/ GetFillRatio
  \/ PrintStats

Spec == Init /\ [][Next]_vars

\* ---- the properties ----

\* The preconditions of the constructor: capacity >= 1 and 0 < p < 1.
ValidConfig(capacity, pct) == capacity >= 1 /\ 0 < pct /\ pct < 100

QueryOps ==
  {"contains", "get_fill_ratio", "get_current_false_positive_probability",
   "print_stats"}

\* C1: no false negatives.  On a filter built from a valid configuration,
\* every item for which add has returned is reported present by contains,
\* in every later state, whatever else has been added since.
NoFalseNegatives ==
  (created /\ ValidConfig(n, p)) =>
    \A x \in added : contains(x).exc = "none" /\ contains(x).ret = TRUE

\* C1 witness: two different items were added to a filter with several
\* rounds, contains has answered true for one of them, and an item never
\* added is still reported absent.
NoFalseNegativesWitness ==
  /\ created /\ ValidConfig(n, p) /\ k >= 2
  /\ addCalls >= 2 /\ Cardinality(added) >= 2
  /\ last.op = "contains" /\ last.item \in added /\ last.ret = TRUE
  /\ \E y \in Items \ added : contains(y).ret = FALSE

\* C2: a construction with capacity = 0, p = 0 or p = 1 fails with
\* InvalidConfiguration and creates no filter; capacity = 1, p = 0.5 succeeds.
InvalidConfigurationRejected ==
  last.op = "__init__" =>
    /\ (last.capacity = 0 \/ last.pct = 0 \/ last.pct = 100) =>
         (last.exc = "InvalidConfiguration" /\ ~created)
    /\ (last.capacity = 1 /\ last.pct = 50) =>
         (last.exc = "none" /\ created)

\* C3: parameter bounds.  A filter built from a valid configuration has
\* m >= 1 and k >= 1.
ParameterBounds ==
  (created /\ ValidConfig(n, p)) => (m >= 1 /\ k >= 1)

\* ceil(-capacity * ln(p) / ln(2)^2), in the fixed point of the model
CeilSizing(capacity, pct) ==
  (capacity * NegLogTable[pct] + LN2SQ - 1) \div LN2SQ

\* C4: sizing.  m is the ceiling of -capacity * ln(p) / ln(2)^2;
\* capacity = 100, p = 0.01 gives m = 959 and k = 6, and capacity = 10,
\* p = 0.3 gives m = 26.
SizingIsCeiling ==
  (created /\ ValidConfig(n, p)) =>
    /\ m = CeilSizing(n, p)
    /\ (n = 100 /\ p = 1) => (m = 959 /\ k = 6)
    /\ (n = 10 /\ p = 30) => m = 26

\* C5: on a filter built from a valid configuration no call raises: the
\* construction itself, add, contains, get_fill_ratio,
\* get_current_false_positive_probability and print_stats all complete.
NoOperationFails ==
  (created /\ ValidConfig(n, p)) => last.exc = "none"

\* C6: the element counter is 0 after construction and equals the number of
\* add calls performed in every state: each add, a repeated one included,
\* adds exactly one, and no other call changes it.
CounterCountsAddCalls ==
  created => num_elements = addCalls

\* C6 witness: an add of an item already added has just returned on a filter
\* with at least one round and one bit (it set no new bit).
CounterCountsAddCallsWitness ==
  /\ created /\ k >= 1 /\ m >= 1
  /\ last.op = "add" /\ last.exc = "none"
  /\ addCalls = 2 /\ added = {last.item} /\ num_elements = 2

\* C7: bit monotonicity.  In every step a bit that is true stays true, so
\* the number of set bits never decreases.
BitsNeverCleared ==
  [][ /\ \A i \in DOMAIN bit_array :
           bit_array[i] => (i \in DOMAIN bit_array' /\ bit_array'[i])
      /\ SetBits(bit_array') >= SetBits(bit_array) ]_vars

\* C7 witness: bits are set and a second add has happened on top of them.
BitsNeverClearedWitness ==
  /\ created /\ last.op = "add" /\ addCalls >= 2
  /\ SetBits(bit_array) >= 2

\* C8: contains, get_fill_ratio, get_current_false_positive_probability and
\* print_stats leave bit_array, num_elements, n, p, m and k as they were; a
\* step that changes the bit array or the counter of an existing filter is
\* an add.
QueriesArePure ==
  [][ /\ (last'.op \in QueryOps) => UNCHANGED fields
      /\ (created /\ (bit_array' # bit_array \/ num_elements' # num_elements))
           => last'.op = "add" ]_vars

\* C8 witness: a query has just run on a filter that holds elements.
QueriesArePureWitness ==
  /\ created /\ last.op \in QueryOps
  /\ num_elements >= 1 /\ SetBits(bit_array) >= 1

\* C9: add(item) sets exactly the bits _hash(item, r) for r in [0, k), each
\* of them in [0, m); every other bit keeps its value, the array keeps its
\* length m, n, p, m and k are unchanged, and an add of an item added
\* before leaves the bit array as it was.
AddSetsExactlyItsBits ==
  [][ (addCalls' = addCalls + 1) =>
        LET item == last'.item
            idx == {_hash(item, r, m).val : r \in 0 .. (k - 1)}
        IN /\ last'.op = "add"
           /\ \A r \in 0 .. (k - 1) : _hash(item, r, m).exc = "none"
           /\ idx \subseteq 0 .. (m - 1)
           /\ DOMAIN bit_array = 0 .. (m - 1)
           /\ DOMAIN bit_array' = 0 .. (m - 1)
           /\ {i \in 0 .. (m - 1) : bit_array'[i]} =
                {i \in 0 .. (m - 1) : bit_array[i]} \union idx
           /\ UNCHANGED <<n, p, m, k>>
           /\ (item \in added) => (bit_array' = bit_array) ]_vars

\* C9 witness: after three adds of two different items (one of them
\* repeated) on a filter with several rounds.
AddSetsExactlyItsBitsWitness ==
  /\ created /\ k >= 2 /\ last.op = "add" /\ last.exc = "none"
  /\ addCalls >= 3 /\ Cardinality(added) = 2

\* C10: on a filter built from a valid configuration to which nothing has
\* been added, contains answers false for every item.
EmptyFilterContainsNothing ==
  (created /\ ValidConfig(n, p) /\ addCalls = 0) =>
    \A x \in Items : contains(x).ret = FALSE
====
